---- MODULE Spec2Model ----
(***************************************************************************)
(* Model of the two units of logic of discount-app-components:             *)
(*   - ActiveDatesCard (src/unnamed/part_000): the start/end date fields   *)
(*     owned by the host form, the local showEndDate flag and the three    *)
(*     change handlers;                                                    *)
(*   - generateScopedName / stringHash                                     *)
(*     (src/config/rollup/namespaced-classname.js).                        *)
(*                                                                         *)
(* Time is counted in ticks; a local calendar day has DayLen ticks, so the *)
(* last instant of local day d is d * DayLen + DayLen - 1.  A DateTime     *)
(* (an ISO 8601 string) is a pair <<instant, form>>: two strings can name  *)
(* the same instant and still differ as strings; Date#toISOString always   *)
(* produces the "canonical" form.  null is the empty tuple.                *)
(*                                                                         *)
(* A JavaScript string is a sequence of one-character strings.             *)
(***************************************************************************)
EXTENDS Integers, Sequences, FiniteSets, TLC

VARIABLES
    startDate,      \* startDate.value, as held by the host form
    endDate,        \* endDate.value, as held by the host form (Null = null)
    showEndDate,    \* the component's useState flag
    ianaTimezone,   \* i18n.defaultTimezone, as the zone's offset from UTC in ticks
    last,           \* the event handled last and the values it started from
    calls,          \* the onChange calls made by the event handled last, in order
    startAtClear,   \* history: startDate.value when the end date was last cleared
    name,           \* generateScopedName: the rule name
    filename,       \* generateScopedName: the stylesheet's path
    includeHash,    \* generateScopedName: the option
    scopedName,     \* the string returned by the generated function
    hashed,         \* the number returned by stringHash(name)
    pc              \* "card": the card is mounted; "ready"/"generated"/"hashed": the
                    \* class-name functions have their input / have returned

vars == <<startDate, endDate, showEndDate, ianaTimezone, last, calls, startAtClear,
          name, filename, includeHash, scopedName, hashed, pc>>

dateVars == <<startDate, endDate, showEndDate, ianaTimezone, last, calls, startAtClear>>
nameVars == <<name, filename, includeHash, scopedName, hashed, pc>>

(***************************************************************************)
(* Bounds                                                                  *)
(***************************************************************************)
DayLen == 3         \* ticks in a local calendar day
MaxInstant == 6     \* the instants the host and the pickers supply are 0..MaxInstant
MaxNameLen == 5     \* rule names are enumerated up to this length

Null == <<>>
Forms == {"canonical", "other"}
DateTimes == (0..MaxInstant) \X Forms
Offsets == {-1, 0, 1}     \* sample shop time zones: west of, at and east of UTC

(***************************************************************************)
(* ~/utilities/dates and Date                                              *)
(***************************************************************************)
\* new Date(dateTime): the instant an ISO string names
parseDate(dateTime) == dateTime[1]

\* Date#toISOString
toISOString(date) == <<date, "canonical">>

\* the Date whose wall clock reads the shop's local time of dateTime
getDateTimeInShopTimeZone(dateTime, tz) == parseDate(dateTime) + tz

\* the inverse shift, from shop wall clock back to UTC
getDateInUTC(date, tz) == date - tz

\* the last instant of the day of date
getNewDateAtEndOfDay(date) == (date \div DayLen) * DayLen + (DayLen - 1)

(***************************************************************************)
(* ActiveDatesCard                                                         *)
(***************************************************************************)
initShowEndDateNoNullCheck(start, end, endError) ==
    IF end # Null /\ endError THEN TRUE ELSE start # end

initShowEndDate(start, end, endError) ==
    IF end = Null THEN FALSE
    ELSE IF end # Null /\ endError THEN TRUE
    ELSE start # end

getValidEndDateTimeStrict(startDateTime, endDateTime, tz) ==
    LET start == getDateTimeInShopTimeZone(startDateTime, tz)
        end   == getDateTimeInShopTimeZone(endDateTime, tz)
    IN  IF start > end
        THEN toISOString(getDateInUTC(getNewDateAtEndOfDay(start), tz))
        ELSE endDateTime

getValidEndDateTime(startDateTime, endDateTime, tz) ==
    LET start == getDateTimeInShopTimeZone(startDateTime, tz)
        end   == getDateTimeInShopTimeZone(endDateTime, tz)
    IN  IF start >= end
        THEN toISOString(getDateInUTC(getNewDateAtEndOfDay(start), tz))
        ELSE endDateTime

Call(field, value) == [field |-> field, value |-> value]

Event(op, arg) ==
    [op |-> op, arg |-> arg, start0 |-> startDate, end0 |-> endDate, show0 |-> showEndDate]

\* the host applies every onChange call, in order, to the field it belongs to
Applied(cs, field, old) ==
    LET mine == SelectSeq(cs, LAMBDA c : c.field = field)
    IN  IF mine = <<>> THEN old ELSE mine[Len(mine)].value

startChangeCallsStartOnly(nextStart) == <<Call("start", nextStart)>>

\* the onChange calls of handleStartDateTimeChange, in order
startChangeCallsAlways(nextStart) ==
    <<Call("start", nextStart)>> \o
    (IF endDate # Null
     THEN <<Call("end", getValidEndDateTime(nextStart, endDate, ianaTimezone))>>
     ELSE <<>>)

startChangeCalls(nextStart) ==
    <<Call("start", nextStart)>> \o
    (IF endDate # Null
     THEN LET nextEndDate == getValidEndDateTime(nextStart, endDate, ianaTimezone)
          IN  IF nextEndDate # endDate THEN <<Call("end", nextEndDate)>> ELSE <<>>
     ELSE <<>>)

handleStartDateTimeChange(nextStart) ==
    LET cs == startChangeCalls(nextStart)
    IN  /\ calls' = cs
        /\ startDate' = Applied(cs, "start", startDate)
        /\ endDate' = Applied(cs, "end", endDate)
        /\ last' = Event("start", nextStart)
        /\ UNCHANGED <<showEndDate, ianaTimezone, startAtClear>>

\* the end-date pickers are rendered only while showEndDate && endDate.value !== null
endPickersRendered == showEndDate /\ endDate # Null

handleEndDateTimeChange(requestedEndDate) ==
    /\ endPickersRendered
    /\ LET nextEndDate == getValidEndDateTime(startDate, requestedEndDate, ianaTimezone)
           cs == <<Call("end", nextEndDate)>>
       IN  /\ calls' = cs
           /\ startDate' = Applied(cs, "start", startDate)
           /\ endDate' = Applied(cs, "end", endDate)
    /\ last' = Event("end", requestedEndDate)
    /\ UNCHANGED <<showEndDate, ianaTimezone, startAtClear>>

\* the default end date of handleShowEndDateChange
endDateAtEndOfDay(start, tz) ==
    toISOString(getDateInUTC(getNewDateAtEndOfDay(getDateTimeInShopTimeZone(start, tz)), tz))

handleShowEndDateChangeStaleStart ==
    /\ LET from == IF startAtClear # Null THEN startAtClear ELSE startDate
           cs == IF showEndDate
                 THEN <<Call("end", Null)>>
                 ELSE <<Call("end", endDateAtEndOfDay(from, ianaTimezone))>>
       IN  /\ calls' = cs
           /\ startDate' = Applied(cs, "start", startDate)
           /\ endDate' = Applied(cs, "end", endDate)
    /\ showEndDate' = ~showEndDate
    /\ startAtClear' = IF showEndDate THEN startDate ELSE startAtClear
    /\ last' = Event("toggle", Null)
    /\ UNCHANGED ianaTimezone

handleShowEndDateChange ==
    /\ LET cs == IF showEndDate
                 THEN <<Call("end", Null)>>
                 ELSE <<Call("end", endDateAtEndOfDay(startDate, ianaTimezone))>>
       IN  /\ calls' = cs
           /\ startDate' = Applied(cs, "start", startDate)
           /\ endDate' = Applied(cs, "end", endDate)
    /\ showEndDate' = ~showEndDate
    /\ startAtClear' = IF showEndDate THEN startDate ELSE startAtClear
    /\ last' = Event("toggle", Null)
    /\ UNCHANGED ianaTimezone

\* mount: the host's field values are arbitrary, showEndDate is initShowEndDate
InitDates ==
    /\ startDate \in DateTimes
    /\ endDate \in DateTimes \cup {Null}
    /\ ianaTimezone \in Offsets
    /\ \E endError \in BOOLEAN : showEndDate = initShowEndDate(startDate, endDate, endError)
    /\ last = [op |-> "mount", arg |-> Null, start0 |-> startDate, end0 |-> endDate,
               show0 |-> showEndDate]
    /\ calls = <<>>
    /\ startAtClear = Null

NoName ==
    /\ pc = "card"
    /\ name = <<>>
    /\ filename = <<>>
    /\ includeHash = FALSE
    /\ scopedName = <<>>
    /\ hashed = <<>>

Init == InitDates /\ NoName

StartChange == \E nextStart \in DateTimes : handleStartDateTimeChange(nextStart)
EndChange == \E requestedEndDate \in DateTimes : handleEndDateTimeChange(requestedEndDate)
Toggle == handleShowEndDateChange

Next ==
    \/ StartChange /\ UNCHANGED nameVars
    \/ EndChange /\ UNCHANGED nameVars
    \/ Toggle /\ UNCHANGED nameVars

Spec == Init /\ [][Next]_vars

(***************************************************************************)
(* ActiveDatesCard: the claims                                             *)
(***************************************************************************)
\* a DateTime's wall-clock instant in the shop time zone
Local(dateTime) == dateTime[1] + ianaTimezone

\* the last instant of the shop-local day of dateTime, as a UTC ISO string
EndOfLocalDay(dateTime) ==
    <<(Local(dateTime) \div DayLen) * DayLen + DayLen - 1 - ianaTimezone, "canonical">>

EndCalls == SelectSeq(calls, LAMBDA c : c.field = "end")
StartCalls == SelectSeq(calls, LAMBDA c : c.field = "start")

\* C1: after every start-change, end-change or toggle event the end date is null
\* or not earlier than the start date, compared in the shop time zone, whatever
\* the field values were at mount.
C1_EndNotBeforeStart ==
    last.op # "mount" => (endDate = Null \/ Local(endDate) >= Local(startDate))

\* a start change that moved the start past a non-null end, which was corrected
C1_Witness ==
    /\ last.op = "start"
    /\ last.end0 # Null
    /\ parseDate(last.end0) < parseDate(last.arg)
    /\ endDate # Null
    /\ endDate # last.end0

\* C2: handleEndDateTimeChange(requested) calls endDate.onChange exactly once, with
\* the end of the start's local day when start_local >= requested_local and with
\* requested itself otherwise; it makes no startDate.onChange call and leaves
\* showEndDate alone.
C2_EndChangeAlwaysNotifies ==
    last.op = "end" =>
        LET expected == IF Local(last.start0) >= Local(last.arg)
                        THEN EndOfLocalDay(last.start0)
                        ELSE last.arg
        IN  /\ calls = <<Call("end", expected)>>
            /\ endDate = expected
            /\ startDate = last.start0
            /\ showEndDate = last.show0

\* an end change whose result is the end date already in the field, notified all the same
C2_Witness ==
    /\ last.op = "end"
    /\ last.end0 # Null
    /\ endDate = last.end0
    /\ calls = <<Call("end", last.end0)>>

\* C3: a toggle while shown clears endDate and hides the inputs; a toggle while
\* hidden shows them and sets endDate to the end of the shop-local day of the
\* start date current at that moment, in UTC.
C3_ToggleSequence ==
    last.op = "toggle" =>
        /\ startDate = last.start0
        /\ IF last.show0
           THEN endDate = Null /\ ~showEndDate
           ELSE showEndDate /\ endDate = EndOfLocalDay(startDate)

\* shown again after a clear, the start having moved to another local day meanwhile
C3_Witness ==
    /\ last.op = "toggle"
    /\ ~last.show0
    /\ showEndDate
    /\ startAtClear # Null
    /\ EndOfLocalDay(startAtClear) # EndOfLocalDay(startDate)
    /\ endDate = EndOfLocalDay(startDate)

\* C8: handleStartDateTimeChange(next) calls startDate.onChange(next) exactly once
\* and endDate.onChange at most once, and then only when the end is non-null and
\* its corrected value differs from it; a null end, or an end later than the new
\* start, is left untouched; showEndDate is unchanged.
C8_StartChangeFrame ==
    last.op = "start" =>
        LET invalid == last.end0 # Null /\ Local(last.arg) >= Local(last.end0)
        IN  /\ StartCalls = <<Call("start", last.arg)>>
            /\ startDate = last.arg
            /\ Len(EndCalls) <= 1
            /\ EndCalls # <<>> =>
                   /\ invalid
                   /\ EndCalls[1].value = EndOfLocalDay(last.arg)
                   /\ EndCalls[1].value # last.end0
                   /\ endDate = EndCalls[1].value
            /\ ~invalid => (EndCalls = <<>> /\ endDate = last.end0)
            /\ showEndDate = last.show0

\* a start change that had to correct the end date
C8_Witness ==
    /\ last.op = "start"
    /\ Len(calls) = 2
    /\ calls[2].field = "end"

\* C9: every end date the start and end handlers pass to endDate.onChange is
\* strictly later than the start date it was validated against.
C9_EmittedEndStrictlyLater ==
    last.op \in {"start", "end"} =>
        LET against == IF last.op = "start" THEN last.arg ELSE last.start0
        IN  \A i \in 1..Len(EndCalls) : parseDate(EndCalls[i].value) > parseDate(against)

\* C10: while the end-date inputs are flagged as shown there is an end date.
C10_ShownImpliesEndDate == showEndDate => endDate # Null

\* shown by a toggle
C10_Witness == showEndDate /\ endDate # Null /\ last.op = "toggle"

(***************************************************************************)
(* Characters and strings                                                  *)
(***************************************************************************)
Uppers == <<"A", "B", "C", "D", "E", "F", "G", "H", "I", "J", "K", "L", "M", "N", "O", "P", "Q", "R", "S", "T", "U", "V", "W", "X", "Y", "Z">>
Lowers == <<"a", "b", "c", "d", "e", "f", "g", "h", "i", "j", "k", "l", "m", "n", "o", "p", "q", "r", "s", "t", "u", "v", "w", "x", "y", "z">>
Digits == <<"0", "1", "2", "3", "4", "5", "6", "7", "8", "9">>

InSeq(c, seq) == \E i \in 1..Len(seq) : seq[i] = c
IndexIn(c, seq) == CHOOSE i \in 1..Len(seq) : seq[i] = c

isUpper(c) == InSeq(c, Uppers)
isLower(c) == InSeq(c, Lowers)
isDigit(c) == InSeq(c, Digits)
\* the regular expression class \w
isWordChar(c) == isUpper(c) \/ isLower(c) \/ isDigit(c) \/ c = "_"

toLowerCase(c) == IF isUpper(c) THEN Lowers[IndexIn(c, Uppers)] ELSE c
toUpperCase(c) == IF isLower(c) THEN Uppers[IndexIn(c, Lowers)] ELSE c

\* String#charCodeAt, for the characters of rule names and paths
charCode(c) ==
    IF isUpper(c) THEN 64 + IndexIn(c, Uppers)
    ELSE IF isLower(c) THEN 96 + IndexIn(c, Lowers)
    ELSE IF isDigit(c) THEN 47 + IndexIn(c, Digits)
    ELSE IF c = "-" THEN 45
    ELSE IF c = "." THEN 46
    ELSE IF c = "/" THEN 47
    ELSE 95

\* whether pat occurs in s at position i
Occurs(pat, s, i) ==
    /\ i >= 1
    /\ i + Len(pat) - 1 <= Len(s)
    /\ SubSeq(s, i, i + Len(pat) - 1) = pat

Max(S) == CHOOSE x \in S : \A y \in S : y <= x

\* String#substr(0, n)
substr(s, n) == SubSeq(s, 1, IF Len(s) < n THEN Len(s) ELSE n)

\* String#split('-')
RECURSIVE splitLoop(_, _, _, _)
splitLoop(s, i, cur, acc) ==
    IF i > Len(s) THEN Append(acc, cur)
    ELSE IF s[i] = "-" THEN splitLoop(s, i + 1, <<>>, Append(acc, cur))
    ELSE splitLoop(s, i + 1, Append(cur, s[i]), acc)

split(s) == splitLoop(s, 1, <<>>, <<>>)

\* path.basename(filename, ext) of a path that does not end in '/'
basename(path, ext) ==
    LET slashes == {i \in 1..Len(path) : path[i] = "/"}
        base == IF slashes = {} THEN path ELSE SubSeq(path, Max(slashes) + 1, Len(path))
        n == Len(base) - Len(ext)
    IN  IF n > 0 /\ SubSeq(base, n + 1, Len(base)) = ext THEN SubSeq(base, 1, n) ELSE base

(***************************************************************************)
(* camelCase of change-case, for strings without digits: words are split   *)
(* at every non-alphanumeric character, between a lower-case and an        *)
(* upper-case letter, and before the last capital of a run of capitals     *)
(* that a lower-case letter follows; the first word is lower-cased, every  *)
(* later word capitalised.                                                 *)
(***************************************************************************)
RECURSIVE wordsLoop(_, _, _, _)
wordsLoop(s, i, cur, acc) ==
    LET flush == IF cur = <<>> THEN acc ELSE Append(acc, cur)
    IN  IF i > Len(s) THEN flush
        ELSE IF ~(isUpper(s[i]) \/ isLower(s[i]) \/ isDigit(s[i]))
             THEN wordsLoop(s, i + 1, <<>>, flush)
        ELSE IF /\ cur # <<>>
                /\ isUpper(s[i])
                /\ \/ isLower(s[i - 1]) \/ isDigit(s[i - 1])
                   \/ isUpper(s[i - 1]) /\ i < Len(s) /\ isLower(s[i + 1])
             THEN wordsLoop(s, i + 1, <<s[i]>>, flush)
        ELSE wordsLoop(s, i + 1, Append(cur, s[i]), acc)

lowerWord(w) == [i \in 1..Len(w) |-> toLowerCase(w[i])]
capitalWord(w) == [i \in 1..Len(w) |-> IF i = 1 THEN toUpperCase(w[i]) ELSE toLowerCase(w[i])]

RECURSIVE joinWords(_, _)
joinWords(ws, i) ==
    IF i > Len(ws) THEN <<>>
    ELSE (IF i = 1 THEN lowerWord(ws[i]) ELSE capitalWord(ws[i])) \o joinWords(ws, i + 1)

camelCase(s) == joinWords(wordsLoop(s, 1, <<>>, <<>>), 1)

(***************************************************************************)
(* stringHash.  A JavaScript number that holds an integer is the record    *)
(* [neg, hi, lo] of value +-(hi * 2^16 + lo); the operands of ^ are        *)
(* converted by ToInt32 to 32-bit patterns <<high half, low half>>.        *)
(***************************************************************************)
HashSeed == 5381
HashFactor == 33

Number(n) == [neg |-> FALSE, hi |-> n \div 65536, lo |-> n % 65536]

\* hash * 33, exact: the product stays far below 2^53
times(n, k) ==
    [neg |-> n.neg, hi |-> n.hi * k + (n.lo * k) \div 65536, lo |-> (n.lo * k) % 65536]

\* ToInt32: the value modulo 2^32, as a two's-complement bit pattern
ToInt32(n) ==
    LET hi == n.hi % 65536
    IN  IF ~n.neg THEN <<hi, n.lo>>
        ELSE IF n.lo = 0 THEN <<(65536 - hi) % 65536, 0>>
        ELSE <<65535 - hi, 65536 - n.lo>>

\* the signed number a 32-bit pattern stands for
FromInt32(p) ==
    IF p[1] < 32768 THEN [neg |-> FALSE, hi |-> p[1], lo |-> p[2]]
    ELSE IF p[2] = 0 THEN [neg |-> TRUE, hi |-> 65536 - p[1], lo |-> 0]
    ELSE [neg |-> TRUE, hi |-> 65535 - p[1], lo |-> 65536 - p[2]]

\* bitwise exclusive or of two 16-bit halves, bit by bit
xorBits(a, b) ==
    LET bit(k) == (((a \div (2 ^ k)) + (b \div (2 ^ k))) % 2) * (2 ^ k)
    IN  bit(0) + bit(1) + bit(2) + bit(3) + bit(4) + bit(5) + bit(6) + bit(7)
        + bit(8) + bit(9) + bit(10) + bit(11) + bit(12) + bit(13) + bit(14) + bit(15)

\* a ^ b
xor(a, b) ==
    LET x == ToInt32(a)
        y == ToInt32(b)
    IN  FromInt32(<<xorBits(x[1], y[1]), xorBits(x[2], y[2])>>)

\* n >>> 0
unsignedShift0(n) == LET p == ToInt32(n) IN [neg |-> FALSE, hi |-> p[1], lo |-> p[2]]

\* while (i) { hash = (hash * 33) ^ str.charCodeAt(--i); }
\* (the test on next only makes TLC evaluate one iteration before the following one)
RECURSIVE hashLoop(_, _, _)
hashLoop(str, i, hash) ==
    IF i = 0 THEN hash
    ELSE LET next == xor(times(hash, HashFactor), Number(charCode(str[i])))
         IN  IF next.neg \in BOOLEAN THEN hashLoop(str, i - 1, next) ELSE next

stringHashSigned(str) == hashLoop(str, Len(str), Number(HashSeed))

stringHash(str) == unsignedShift0(hashLoop(str, Len(str), Number(HashSeed)))

\* Number#toString(36) of a number in 0 .. 2^32 - 1
Digits36 == Digits \o Lowers

RECURSIVE toString36(_)
toString36(n) ==
    LET r == n.hi % 36
        q == [neg |-> FALSE, hi |-> n.hi \div 36, lo |-> (r * 65536 + n.lo) \div 36]
        d == Digits36[((r * 65536 + n.lo) % 36) + 1]
    IN  IF q.hi = 0 /\ q.lo = 0 THEN <<d>> ELSE Append(toString36(q), d)

(***************************************************************************)
(* generateScopedName                                                      *)
(***************************************************************************)
Namespace == <<"D", "i", "s", "c", "o", "u", "n", "t", "A", "p", "p", "C", "o", "m", "p", "o", "n", "e", "n", "t", "s", "-">>
ScssExt == <<".", "s", "c", "s", "s">>
ComponentsOpen == <<"/", "c", "o", "m", "p", "o", "n", "e", "n", "t", "s", "/">>
ComponentsClose == <<"/", "c", "o", "m", "p", "o", "n", "e", "n", "t", "s">>

\* COMPONENT_REGEX = /^[A-Z]\w+$/
isComponent(className) ==
    /\ Len(className) >= 2
    /\ isUpper(className[1])
    /\ \A i \in 2..Len(className) : isWordChar(className[i])

\* /^[\w-]+-[\w-]+$/: hyphens allowed inside the two parts
matchesSubcomponentVariationLoose(s) ==
    /\ \A i \in 1..Len(s) : isWordChar(s[i]) \/ s[i] = "-"
    /\ \E k \in 2..(Len(s) - 1) : s[k] = "-"

\* SUBCOMPONENT_VARIATION_SELECTOR = /^\w+-\w+$/
matchesSubcomponentVariation(s) ==
    \E k \in 2..(Len(s) - 1) :
        /\ s[k] = "-"
        /\ \A i \in (1..Len(s)) \ {k} : isWordChar(s[i])

\* components/(.*)/components, with no '/' required before the first "components"
nestedComponentMatchUnrooted(path) ==
    LET open == Tail(ComponentsOpen)
        closes(i) == {j \in (i + Len(open))..Len(path) : Occurs(ComponentsClose, path, j)}
        starts == {i \in 1..Len(path) : Occurs(open, path, i) /\ closes(i) # {}}
    IN  IF starts = {} THEN <<>>
        ELSE LET i == Max(starts)
             IN  <<SubSeq(path, i + Len(open), Max(closes(i)) - 1)>>

\* NESTED_COMPONENT_PATH_REGEX.exec(filename): <<>> for null, else <<capture group 1>>;
\* both .* are greedy, so the last "/components/" that a "/components" follows starts
\* the match and the last "/components" ends the group
nestedComponentMatch(path) ==
    LET closes(i) ==
            {j \in (i + Len(ComponentsOpen))..Len(path) : Occurs(ComponentsClose, path, j)}
        starts == {i \in 1..Len(path) : Occurs(ComponentsOpen, path, i) /\ closes(i) # {}}
    IN  IF starts = {} THEN <<>>
        ELSE LET i == Max(starts)
             IN  <<SubSeq(path, i + Len(ComponentsOpen), Max(closes(i)) - 1)>>

discountsClassName(className) == Namespace \o className
subcomponentClassName(component, subcomponent) == component \o <<"_", "_">> \o subcomponent
variationClassName(component, variation) == component \o <<"-", "-">> \o variation

discountsComponentName(path) ==
    LET componentName == basename(path, ScssExt)
        m == nestedComponentMatch(path)
    IN  IF m # <<>>
        THEN discountsClassName(m[1]) \o <<"-">> \o componentName
        ELSE discountsClassName(componentName)

className(ruleName, path) ==
    LET componentName == basename(path, ScssExt)
        parent == discountsComponentName(path)
    IN  IF isComponent(ruleName)
        THEN IF componentName = ruleName
             THEN parent
             ELSE subcomponentClassName(parent, ruleName)
        ELSE IF matchesSubcomponentVariation(ruleName)
        THEN LET parts == split(ruleName)
             IN  variationClassName(subcomponentClassName(parent, parts[1]),
                                    camelCase(parts[2]))
        ELSE variationClassName(parent, camelCase(ruleName))

suffixOfFour(ruleName, withHash) ==
    IF withHash THEN <<"_">> \o substr(toString36(stringHash(ruleName)), 4) ELSE <<>>

suffix(ruleName, withHash) ==
    IF withHash THEN <<"_">> \o substr(toString36(stringHash(ruleName)), 5) ELSE <<>>

generateScopedName(withHash, ruleName, path) ==
    className(ruleName, path) \o suffix(ruleName, withHash)

(***************************************************************************)
(* The class-name functions applied to enumerated inputs                   *)
(***************************************************************************)
NameChars == {"A", "a", "-", "_"}
ExampleNames ==
    { <<"I", "n", "n", "e", "r">>,
      <<"C", "a", "r", "d">>,
      <<"a", "c", "t", "i", "v", "e">>,
      <<"b", "u", "t", "t", "o", "n", "-", "a", "c", "t", "i", "v", "e">>,
      <<"a", "-", "b", "-", "c">> }
RuleNames == UNION {[1..n -> NameChars] : n \in 0..MaxNameLen} \cup ExampleNames

CardPath == <<"c", "o", "m", "p", "o", "n", "e", "n", "t", "s", "/", "C", "a", "r", "d", "/", "C", "a", "r", "d", ".", "s", "c", "s", "s">>
VariationsPath == <<"c", "o", "m", "p", "o", "n", "e", "n", "t", "s", "/", "C", "a", "r", "d", "/", "v", "a", "r", "i", "a", "t", "i", "o", "n", "s", ".", "s", "c", "s", "s">>
NestedPath == <<"c", "o", "m", "p", "o", "n", "e", "n", "t", "s", "/", "O", "u", "t", "e", "r", "/", "c", "o", "m", "p", "o", "n", "e", "n", "t", "s", "/", "I", "n", "n", "e", "r", "/", "I", "n", "n", "e", "r", ".", "s", "c", "s", "s">>
RootedNestedPath == <<"/">> \o NestedPath
Paths == {CardPath, VariationsPath, NestedPath, RootedNestedPath}

InitNames ==
    /\ pc = "ready"
    /\ name \in RuleNames
    /\ filename \in Paths
    /\ includeHash \in BOOLEAN
    /\ scopedName = <<>>
    /\ hashed = Number(0)
    /\ startDate = <<0, "canonical">>
    /\ endDate = Null
    /\ showEndDate = FALSE
    /\ ianaTimezone = 0
    /\ last = [op |-> "none", arg |-> Null, start0 |-> startDate, end0 |-> endDate,
               show0 |-> showEndDate]
    /\ calls = <<>>
    /\ startAtClear = Null

CallGenerateScopedName ==
    /\ pc = "ready"
    /\ scopedName' = generateScopedName(includeHash, name, filename)
    /\ pc' = "generated"
    /\ UNCHANGED <<name, filename, includeHash, hashed>>

CallStringHash ==
    /\ pc = "ready"
    /\ hashed' = stringHash(name)
    /\ pc' = "hashed"
    /\ UNCHANGED <<name, filename, includeHash, scopedName>>

NextNames ==
    \/ CallGenerateScopedName /\ UNCHANGED dateVars
    \/ CallStringHash /\ UNCHANGED dateVars

SpecNames == InitNames /\ [][NextNames]_vars

\* a string of the model as a TLA+ string
RECURSIVE Flat(_)
Flat(s) == IF s = <<>> THEN "" ELSE Head(s) \o Flat(Tail(s))

(***************************************************************************)
(* generateScopedName and stringHash: the claims                           *)
(***************************************************************************)
\* a AND b on the bits k .. 0, for a and b in 0 .. 2^16 - 1
RECURSIVE AndUpTo(_, _, _)
AndUpTo(a, b, k) ==
    IF k < 0 THEN 0
    ELSE (IF (a \div (2 ^ k)) % 2 = 1 /\ (b \div (2 ^ k)) % 2 = 1 THEN 2 ^ k ELSE 0)
         + AndUpTo(a, b, k - 1)

\* a XOR b = a + b - 2 * (a AND b)
XorUpTo(a, b, k) == a + b - 2 * AndUpTo(a, b, k)

\* DJB2-XOR over the characters i, i-1, .., 1 of str in arithmetic modulo 2^32, on
\* the halves <<high 16 bits, low 16 bits>>; only the low half meets the char code
RECURSIVE Djb2Xor(_, _, _)
Djb2Xor(str, i, h) ==
    IF i = 0 THEN h
    ELSE LET lo33 == h[2] * 33
             hi33 == (h[1] * 33 + lo33 \div 65536) % 65536
         IN  Djb2Xor(str, i - 1, <<hi33, XorUpTo(lo33 % 65536, charCode(str[i]), 15)>>)

Hash32(str) == Djb2Xor(str, Len(str), <<0, 5381>>)

\* the number a base-36 numeral stands for, as <<value \div 2^16, value % 2^16>>
RECURSIVE Value36(_, _, _)
Value36(digits, i, v) ==
    IF i > Len(digits) THEN v
    ELSE LET lo == v[2] * 36 + (IndexIn(digits[i], Digits36) - 1)
         IN  Value36(digits, i + 1, <<v[1] * 36 + lo \div 65536, lo % 65536>>)

\* h >= 36^4 = 25 * 2^16 + 41216
AtLeast36Pow4(h) == h[1] > 25 \/ (h[1] = 25 /\ h[2] >= 41216)

\* C4: stringHash(s) is the DJB2-XOR hash of s taken from the last character to the
\* first in 32-bit wraparound arithmetic, read as unsigned: a number in 0 .. 2^32 - 1.
C4_StringHashIsDjb2Xor ==
    pc = "hashed" =>
        /\ ~hashed.neg
        /\ hashed.hi \in 0..65535
        /\ hashed.lo \in 0..65535
        /\ <<hashed.hi, hashed.lo>> = Hash32(name)
        /\ name = <<>> => (hashed.hi = 0 /\ hashed.lo = 5381)
        /\ name = <<"C", "a", "r", "d">> => (hashed.hi = 31851 /\ hashed.lo = 4497)
        /\ name = <<"a", "-", "b", "-", "c">> => (hashed.hi = 2666 /\ hashed.lo = 1605)

\* a hash whose signed 32-bit value is negative: the multiplication wrapped around
C4_Witness == pc = "hashed" /\ Len(name) >= 4 /\ hashed.hi >= 32768

\* C5 as stated: with includeHash the result is the un-hashed class name followed by
\* '_' and exactly 5 base-36 characters, for every rule name.
C5_ExactlyFiveHashChars ==
    (pc = "generated" /\ includeHash) =>
        LET base == generateScopedName(FALSE, name, filename)
        IN  /\ Len(scopedName) = Len(base) + 6
            /\ SubSeq(scopedName, 1, Len(base)) = base
            /\ scopedName[Len(base) + 1] = "_"
            /\ \A i \in (Len(base) + 2)..Len(scopedName) : InSeq(scopedName[i], Digits36)

\* C5 as amended: with includeHash the result is the un-hashed class name, '_' and
\* the first 5 characters of the base-36 numeral of stringHash(name); the numeral has
\* no leading zero, so the suffix has 5 hash characters exactly when the hash is at
\* least 36^4, and fewer otherwise: 3 ("45h") for the empty name, 4 for a name of one
\* character.
C5_AtMostFiveHashChars ==
    (pc = "generated" /\ includeHash) =>
        LET base == generateScopedName(FALSE, name, filename)
            numeral == toString36(stringHash(name))
            k == Len(scopedName) - Len(base) - 1
        IN  /\ Value36(numeral, 1, <<0, 0>>) = Hash32(name)
            /\ Len(numeral) > 1 => numeral[1] # "0"
            /\ \A i \in 1..Len(numeral) : InSeq(numeral[i], Digits36)
            /\ k \in 1..5
            /\ scopedName = base \o <<"_">> \o SubSeq(numeral, 1, k)
            /\ k = 5 <=> AtLeast36Pow4(Hash32(name))
            /\ k < 5 => k = Len(numeral)
            /\ name = <<>> => Flat(SubSeq(scopedName, Len(base) + 1, Len(scopedName))) = "_45h"
            /\ Len(name) = 1 => k = 4

\* the empty rule name, hashed: three hash characters
C5_Witness ==
    /\ pc = "generated"
    /\ includeHash
    /\ name = <<>>
    /\ filename = CardPath
    /\ Flat(scopedName) = "DiscountAppComponents-Card--_45h"

\* C6 as stated: the relative nested path and the rule name "Inner" give a doubly
\* namespaced result.
C6_NestedDoublyWrapped ==
    (pc = "generated" /\ ~includeHash /\ filename = NestedPath /\ name = <<"I", "n", "n", "e", "r">>) =>
        Flat(scopedName) = "DiscountAppComponents-DiscountAppComponents-Outer-Inner"

\* C6 as amended: the nested-component pattern needs a '/' before the first
\* "components", so it does not match the relative path and the result for "Inner" is
\* "DiscountAppComponents-Inner"; on the rooted path it matches, the group is "Outer"
\* and the result is "DiscountAppComponents-Outer-Inner", the namespace applied once.
C6_NestedPathResult ==
    (pc = "generated" /\ ~includeHash /\ name = <<"I", "n", "n", "e", "r">>) =>
        /\ filename = NestedPath =>
               /\ nestedComponentMatch(filename) = <<>>
               /\ Flat(scopedName) = "DiscountAppComponents-Inner"
        /\ filename = RootedNestedPath =>
               /\ nestedComponentMatch(filename) = <<<<"O", "u", "t", "e", "r">>>>
               /\ Flat(scopedName) = "DiscountAppComponents-Outer-Inner"

\* the class name of "Inner" generated for the relative nested path
C6_Witness ==
    /\ pc = "generated"
    /\ ~includeHash
    /\ filename = NestedPath
    /\ name = <<"I", "n", "n", "e", "r">>
    /\ Flat(scopedName) = "DiscountAppComponents-Inner"

\* a rule name of word characters and hyphens with more than one hyphen
MultiHyphen(s) ==
    /\ \A i \in 1..Len(s) : isWordChar(s[i]) \/ s[i] = "-"
    /\ Cardinality({i \in 1..Len(s) : s[i] = "-"}) > 1

\* C7 as stated: such a name is a subcomponent-variation selector of which only the
\* first two hyphen-separated segments are used.
C7_FirstTwoSegmentsUsed ==
    (pc = "generated" /\ ~includeHash /\ MultiHyphen(name) /\ ~isComponent(name)) =>
        scopedName = discountsComponentName(filename) \o <<"_", "_">> \o split(name)[1]
                         \o <<"-", "-">> \o camelCase(split(name)[2])

\* C7 as amended: such a name matches neither the component pattern nor the
\* subcomponent-variation pattern (\w admits no hyphen), so it is a plain variation:
\* the result is parentQualifiedName + "--" + camelCase(whole name), no segment
\* dropped ("a-b-c" in Card.scss gives "DiscountAppComponents-Card--aBC").
C7_MultiHyphenIsPlainVariation ==
    (pc = "generated" /\ ~includeHash /\ MultiHyphen(name)) =>
        /\ ~isComponent(name)
        /\ ~matchesSubcomponentVariation(name)
        /\ scopedName = discountsComponentName(filename) \o <<"-", "-">> \o camelCase(name)
        /\ (name = <<"a", "-", "b", "-", "c">> /\ filename = CardPath) =>
               Flat(scopedName) = "DiscountAppComponents-Card--aBC"

\* "a-b-c" generated for Card.scss
C7_Witness ==
    /\ pc = "generated"
    /\ ~includeHash
    /\ name = <<"a", "-", "b", "-", "c">>
    /\ filename = CardPath
    /\ Flat(scopedName) = "DiscountAppComponents-Card--aBC"

\* the examples of the class-name convention
ScopedNameExamples ==
    (pc = "generated" /\ ~includeHash) =>
        /\ (name = <<"C", "a", "r", "d">> /\ filename = CardPath) =>
               Flat(scopedName) = "DiscountAppComponents-Card"
        /\ (name = <<"a", "c", "t", "i", "v", "e">> /\ filename = VariationsPath) =>
               Flat(scopedName) = "DiscountAppComponents-variations--active"
        /\ (name = <<"b", "u", "t", "t", "o", "n", "-", "a", "c", "t", "i", "v", "e">> /\ filename = CardPath) =>
               Flat(scopedName) = "DiscountAppComponents-Card__button--active"
        /\ (name = <<"I", "n", "n", "e", "r">> /\ filename = CardPath) =>
               Flat(scopedName) = "DiscountAppComponents-Card__Inner"

====
